---- MODULE Spec2Model ----
(***************************************************************************)
(* A model of the load, batching, pipeline-runner and classification code  *)
(* of the three ETL pipelines (ETL_PIPELINE, ETL_URBAN, ETL_LOGISTIC).     *)
(*                                                                         *)
(* The remote table store is an external collaborator.  One insert call    *)
(* has three outcomes: "ok" (the call returns and response.data holds the  *)
(* inserted rows), "empty" (the call returns, response.data is empty and   *)
(* no row was stored) and "fault" (the call raises).  A delete call is     *)
(* "ok" or "fault".                                                        *)
(***************************************************************************)
EXTENDS Integers, Sequences, FiniteSets, TLC

(* ----------------------------- bounds ---------------------------------- *)
\* longest staged file in the loader model
MaxRows == 4
\* batch sizes 1..MaxBatchSize stand for BATCH_SIZE / size=200
MaxBatchSize == 2
\* rows already in the target table before the first run
MaxOld == 2
\* how many times load_data is run in a row
MaxRuns == 2
\* a metric is held as a whole number of 1/Scale units (60.01 is 6001)
Scale == 100
\* largest delay classified, in minutes
MaxDelay == 500
\* most rows of the severity_score column
MaxScores == 5
\* most hourly rows in the raw air quality files
MaxRaw == 1
\* most rows of the deliveries file
MaxDeliveries == 2
\* most rows of the traffic routes file
MaxRoutes == 1
\* most cities in AQ_CITIES
MaxCities == 3
\* most rows of the table telco_churn, and of the staged file, at validation
MaxTable == 5
\* the page of fetch_all_rows: batch_size, 1000 in the source
PageSize == 2
\* most rows of the raw churn file
MaxChurn == 3

(* ------------------------ program constants ---------------------------- *)
\* ETL_PIPELINE/load.py: for attempt in range(3)
LOAD_DATA_ATTEMPTS == 3
\* ETL_URBAN/load.py: RETRY_LIMIT = 2
RETRY_LIMIT == 2
\* ETL_URBAN/run_pipeline.py: while attempts <= 2 and not inserted
RUN_LOAD_RETRIES == 2
\* ETL_URBAN/extract.py: MAX_RETRIES, 3 unless the environment sets it
MAX_RETRIES == 3
\* ETL_LOGISTIC/transform.py, classify_delay: elif x <= 60
SLIGHT_DELAY_MAX == 60
\* ETL_LOGISTIC/transform.py, classify_delay: elif x <= 180
MAJOR_DELAY_MAX == 180

VARIABLES
    prog,           \* the script being run
    loader,         \* the loader code that is running
    pc,             \* position of the script
    staged,         \* rows of the staged CSV file
    staged_exists,  \* whether the staged CSV file exists
    records,        \* rows the running loader read from the staged file
    batch_size,     \* the batch size in use
    table,          \* rows of the target table, in insertion order
    i,              \* 1-based position of the batch being inserted
    attempts,       \* failed attempts of the current batch so far
    success_count,  \* the loader's success_count
    fail_count,     \* the loader's fail_count (load_data and logistic keep none)
    tries,          \* history: insert calls issued per batch in this run
    last_res,       \* history: outcome of the last insert call per batch
    outcome,        \* history: "pending", "succeeded" or "failed" per batch
    handed,         \* history: the batches handed to insert calls in this run
    delete_log,     \* history: outcomes of the delete-all calls of this run
    run,            \* number of the current run of the script
    reports,        \* what each finished run reported, and the table size then
    trace,          \* history: the pipeline stages performed, in order
    metric,         \* classifier model: the value to classify, in 1/Scale units
    label,          \* classifier model: the category assigned, "unset" before
    clf,            \* classifier model: the classifier applied
    missing,        \* classifier model: the value to classify is NaN
    scores,         \* classifier model: the severity_score column of the run
    labels,         \* classifier model: the dynamic_risk column of the run
    raw_rows,       \* air quality transform: the rows parsed from the raw files
    frame,          \* air quality transform: the DataFrame df
    tpc,            \* air quality transform: the position in run_transform
    deliveries_raw, \* delivery transform: the rows of the deliveries file
    traffic_raw,    \* delivery transform: the columns and rows of the traffic file
    deliveries_df,  \* delivery transform: the DataFrame deliveries_df
    traffic_df,     \* delivery transform: the DataFrame traffic_df
    merged_df,      \* delivery transform: the DataFrame merged_df
    dpc,            \* delivery transform: the position in the script
    cities,         \* extraction: the number of configured cities
    city,           \* extraction: the city of the loop of fetch_all_cities
    attempt,        \* extraction: the local attempt of _fetch_city
    events,         \* extraction: history, one entry per attempt and its sleep
    saved_files,    \* extraction: the list saved_files, by city
    epc,            \* extraction: the position in fetch_all_cities
    file_columns,   \* churn load: the header of the staged CSV file
    df_columns,     \* churn load: df.columns
    spc,            \* churn load: the position in load_data before the loop
    db_table,       \* validation: the rows of the table telco_churn
    csv_len,        \* validation: len(df_csv), the rows of the staged file
    fetch_start,    \* validation: the local start of fetch_all_rows
    all_data,       \* validation: the list all_data of fetch_all_rows
    requests,       \* validation: history, the range requests made
    checks,         \* validation: the results printed by validate_data
    vpc,            \* validation: the position in validate_data
    churn_raw,      \* churn transform: the Contract column of the raw file
    churn_df,       \* churn transform: the DataFrame df, its Contract columns
    kpc             \* churn transform: the position in transform_data

\* the variables of the loaders and of the pipeline runner
lvars == <<prog, loader, pc, staged, staged_exists, records, batch_size, table,
           i, attempts, success_count, fail_count, tries, last_res, outcome,
           handed, delete_log, run, reports, trace>>

\* the variables of the classifiers
cvars == <<metric, label, clf, missing, scores, labels>>

\* the variables of the air quality transform
tvars == <<raw_rows, frame, tpc>>

\* the variables of the delivery transform
dvars ==
    <<deliveries_raw, traffic_raw, deliveries_df, traffic_df, merged_df, dpc>>

\* the variables of the extraction
evars == <<cities, city, attempt, events, saved_files, epc>>

\* the variables of the column selection of the churn load
svars == <<file_columns, df_columns, spc>>

\* the variables of the validation
vvars == <<db_table, csv_len, fetch_start, all_data, requests, checks, vpc>>

\* the variables of the churn transform
kvars == <<churn_raw, churn_df, kpc>>

\* the variables that no loader touches
nvars == <<cvars, tvars, dvars, evars, svars, vvars, kvars>>

\* the variables that the churn transform does not touch
not_kvars == <<lvars, cvars, tvars, dvars, evars, svars, vvars>>

\* the variables that the validation does not touch
not_vvars == <<lvars, cvars, tvars, dvars, evars, svars,
      kvars>>

\* the variables that the column selection does not touch
not_svars == <<lvars, cvars, tvars, dvars, evars, vvars,
      kvars>>

\* the variables that no classifier touches
not_cvars == <<lvars, tvars, dvars, evars, svars, vvars,
      kvars>>

\* the variables that the air quality transform does not touch
not_tvars == <<lvars, cvars, dvars, evars, svars, vvars,
      kvars>>

\* the variables that the delivery transform does not touch
not_dvars == <<lvars, cvars, tvars, evars, svars, vvars,
      kvars>>

\* the variables that the extraction does not touch
not_evars == <<lvars, cvars, tvars, dvars, svars, vvars,
      kvars>>

vars == <<lvars, nvars>>

\* no script is running
Idle ==
    /\ prog = "none"
    /\ loader = "none"
    /\ pc = "idle"
    /\ staged = <<>>
    /\ staged_exists = FALSE
    /\ records = <<>>
    /\ batch_size = 1
    /\ table = <<>>
    /\ i = 1
    /\ attempts = 0
    /\ success_count = 0
    /\ fail_count = 0
    /\ tries = <<>>
    /\ last_res = <<>>
    /\ outcome = <<>>
    /\ handed = <<>>
    /\ delete_log = <<>>
    /\ run = 1
    /\ reports = <<>>
    /\ trace = <<>>


\* no classifier is applied
ClassifierIdle ==
    /\ metric = 0
    /\ label = "unset"
    /\ clf = "none"
    /\ missing = FALSE
    /\ scores = <<>>
    /\ labels = <<>>

\* the air quality transform is not running
TransformIdle ==
    /\ raw_rows = <<>>
    /\ frame = <<>>
    /\ tpc = "idle"

\* the delivery transform is not running
DeliveriesIdle ==
    /\ deliveries_raw = <<>>
    /\ traffic_raw = [cols |-> {}, rows |-> <<>>]
    /\ deliveries_df = <<>>
    /\ traffic_df = <<>>
    /\ merged_df = <<>>
    /\ dpc = "idle"

\* the extraction is not running
ExtractIdle ==
    /\ cities = 0
    /\ city = 0
    /\ attempt = 0
    /\ events = <<>>
    /\ saved_files = <<>>
    /\ epc = "idle"

\* the churn load is not reading a staged file
SchemaIdle ==
    /\ file_columns = {}
    /\ df_columns = {}
    /\ spc = "idle"

\* the validation is not running
ValidateIdle ==
    /\ db_table = <<>>
    /\ csv_len = 0
    /\ fetch_start = 0
    /\ all_data = <<>>
    /\ requests = <<>>
    /\ checks = <<>>
    /\ vpc = "idle"

\* the churn transform is not running
ChurnIdle ==
    /\ churn_raw = <<>>
    /\ churn_df = <<>>
    /\ kpc = "idle"

\* nothing runs but the scripts of group g
Quiet(g) ==
    /\ IF g = "loader" THEN TRUE ELSE Idle
    /\ IF g = "classifier" THEN TRUE ELSE ClassifierIdle
    /\ IF g = "transform" THEN TRUE ELSE TransformIdle
    /\ IF g = "deliveries" THEN TRUE ELSE DeliveriesIdle
    /\ IF g = "extract" THEN TRUE ELSE ExtractIdle
    /\ IF g = "schema" THEN TRUE ELSE SchemaIdle
    /\ IF g = "validate" THEN TRUE ELSE ValidateIdle
    /\ IF g = "churn" THEN TRUE ELSE ChurnIdle

\* nothing but a loader runs
OthersIdle == Quiet("loader")

(* ------------------------------ rows ----------------------------------- *)
\* A nullable column value is <<>> (null) or <<v>>.
Null == <<>>

\* transform_data: contract_type_code is one of 0, 1, 2 for every staged row
ContractTypeCode(k) == k % 3

StagedRow(k, src) == [id |-> k, contract_type_code |-> <<ContractTypeCode(k)>>, src |-> src]

StagedFile(n, src) == [k \in 1..n |-> StagedRow(k, src)]

\* rows some other writer left in the table: codes 1, -1 and null in turn
OldCode(k) == IF k % 3 = 1 THEN <<1>> ELSE IF k % 3 = 2 THEN <<0 - 1>> ELSE Null

OldTable(n) == [k \in 1..n |-> [id |-> k, contract_type_code |-> OldCode(k), src |-> "old"]]

(* ----------------------------- batcher --------------------------------- *)
Min(a, b) == IF a < b THEN a ELSE b

\* (mutant) the slice s[start:end - 1]
SliceShort(s, start, end) == SubSeq(s, start + 1, Min(end, Len(s)) - 1)

\* Python slice s[start:end] for 0 <= start <= end (0-based, end exclusive,
\* clamped to the length)
Slice(s, start, end) == SubSeq(s, start + 1, Min(end, Len(s)))

\* range(0, len(data), size)
ChunkStarts(len, size) == {k \in 0..(len - 1) : k % size = 0}

\* chunk_data(data, size): the batches the generator yields, in order
chunk_data(data, size) ==
    [k \in 1..Cardinality(ChunkStarts(Len(data), size)) |->
        Slice(data, (k - 1) * size, (k - 1) * size + size)]

\* (mutant) total_rows // BATCH_SIZE + 1
CeilPlusOne(total, size) == (total \div size) + 1

\* math.ceil(total_rows / BATCH_SIZE)
Ceil(total, size) == IF total % size = 0 THEN total \div size ELSE (total \div size) + 1

\* records[start:end] for i in range(batches), start = i * BATCH_SIZE
UrbanBatches(recs, size) ==
    [k \in 1..Ceil(Len(recs), size) |-> Slice(recs, (k - 1) * size, (k - 1) * size + size)]

\* for _, row in deliveries_df.iterrows(): one insert per row
RowBatches(recs) == [k \in 1..Len(recs) |-> <<recs[k]>>]

\* the batches the given loader hands to insert calls
BatchesOf(l, recs, size) ==
    IF l = "load_data" THEN chunk_data(recs, size)
    ELSE IF l = "logistic" THEN RowBatches(recs)
    ELSE UrbanBatches(recs, size)

Batches == BatchesOf(loader, records, batch_size)


(* --------------------------- target store ------------------------------ *)
InsertResults == {"ok", "empty", "fault"}

DeleteResults == {"ok", "fault"}

\* .delete().neq("contract_type_code", -1): the rows the delete removes; a
\* null never satisfies a comparison, so a row with a null code stays
DeleteFilter(row) ==
    /\ row.contract_type_code # Null
    /\ row.contract_type_code[1] # 0 - 1

\* (mutant) the delete removes nothing
AfterDeleteNothing(t) == t

AfterDelete(t) == SelectSeq(t, LAMBDA row : ~DeleteFilter(row))

\* an insert that would put the rows before those of the table
AfterInsertFirst(t, batch, res) == IF res = "ok" THEN batch \o t ELSE t

\* the table after one insert call: the rows are stored only when the call
\* returns them in response.data
AfterInsert(t, batch, res) == IF res = "ok" THEN t \o batch ELSE t

(* ------------------------- loaders: helpers ---------------------------- *)
\* whether the loader takes the returned call as a success
\* load_data: if response.data; insert_batch, run_load and the row loop of
\* ETL_LOGISTIC: any call that does not raise
Acknowledged(l, res) == IF l = "load_data" THEN res = "ok" ELSE res # "fault"

\* (mutant) the loader stops after the first failed attempt
GivesUpEarly(l, a) == a >= 1

\* whether the loader stops retrying the batch after its a-th failed attempt
GivesUp(l, a) ==
    IF l = "load_data" THEN a >= LOAD_DATA_ATTEMPTS
    ELSE IF l = "insert_batch" THEN a > RETRY_LIMIT
    ELSE IF l = "run_load" THEN ~(a <= RUN_LOAD_RETRIES)
    ELSE TRUE

\* what the summary of a finished load says, and the table size at that time
Report(s, f, t) == [succeeded |-> s, failed |-> f, total |-> Len(records), rows |-> Len(t)]

\* where the script goes when the loader's batch loop is over
AfterLoop ==
    IF prog # "run_pipeline" THEN "done"
    ELSE IF loader = "insert_batch" THEN "import_etl_analysis"
    ELSE "main_analysis"

\* (mutant) the exception of the delete call is swallowed
ClearNeverAborts(res) == FALSE

\* whether the outcome of the delete call ends load_data: the call is in no
\* try block, so its exception leaves the function
ClearAborts(res) == res = "fault"

\* the position after an insert fault in the row loop of ETL_LOGISTIC: the
\* exception is not caught and ends the script
AfterRowFault == "insert_raised"

\* the loader starts on the rows recs: counters and history are reset
BeginLoop(l, recs, t, pos) ==
    /\ loader' = l
    /\ records' = recs
    /\ i' = 1
    /\ attempts' = 0
    /\ success_count' = 0
    /\ fail_count' = 0
    /\ tries' = [k \in 1..Len(BatchesOf(l, recs, batch_size)) |-> 0]
    /\ last_res' = [k \in 1..Len(BatchesOf(l, recs, batch_size)) |-> "none"]
    /\ outcome' = [k \in 1..Len(BatchesOf(l, recs, batch_size)) |-> "pending"]
    /\ handed' = <<>>
    /\ IF Len(BatchesOf(l, recs, batch_size)) = 0
       THEN /\ pc' = pos
            /\ reports' = Append(reports,
                   [succeeded |-> 0, failed |-> 0, total |-> Len(recs), rows |-> Len(t)])
       ELSE /\ pc' = "insert"
            /\ reports' = reports

\* batch i is over with the given verdict; s, f and t are the new counters
\* and the new table
EndBatch(verdict, s, f, t) ==
    /\ outcome' = [outcome EXCEPT ![i] = verdict]
    /\ success_count' = s
    /\ fail_count' = f
    /\ attempts' = 0
    /\ i' = i + 1
    /\ IF i = Len(Batches)
       THEN /\ pc' = AfterLoop
            /\ reports' = Append(reports, Report(s, f, t))
       ELSE /\ pc' = "insert"
            /\ reports' = reports

\* the insert call of batch i is issued and returns res
Call(res) ==
    /\ tries' = [tries EXCEPT ![i] = @ + 1]
    /\ last_res' = [last_res EXCEPT ![i] = res]
    /\ handed' = IF tries[i] = 0 THEN Append(handed, Batches[i]) ELSE handed
    /\ table' = AfterInsert(table, Batches[i], res)

\* the attempt failed and the batch is tried again
Retry ==
    /\ attempts' = attempts + 1
    /\ UNCHANGED <<pc, i, success_count, fail_count, outcome, reports>>

(* ------------------------------ Init ----------------------------------- *)
\* the state before the script progs starts: a staged file of up to MaxRows
\* rows (for the scripts of ETL_URBAN it may be missing) and a target table
\* holding up to MaxOld rows
Start(progs) ==
    /\ prog \in progs
    /\ loader = "none"
    /\ pc = "start"
    /\ staged_exists \in (IF prog \in {"urban_load", "run_pipeline"} THEN BOOLEAN ELSE {TRUE})
    /\ \E n \in 0..MaxRows :
         staged = IF staged_exists THEN StagedFile(n, "staged") ELSE <<>>
    /\ records = <<>>
    /\ batch_size \in (IF prog = "logistic_load" THEN {1} ELSE 1..MaxBatchSize)
    /\ \E n \in 0..MaxOld : table = OldTable(n)
    /\ i = 1
    /\ attempts = 0
    /\ success_count = 0
    /\ fail_count = 0
    /\ tries = <<>>
    /\ last_res = <<>>
    /\ outcome = <<>>
    /\ handed = <<>>
    /\ delete_log = <<>>
    /\ run = 1
    /\ reports = <<>>
    /\ trace = <<>>
    /\ OthersIdle

(* ------------------- ETL_PIPELINE/scripts/load.py ---------------------- *)
\* load_data, up to the batch loop: read the staged file, clear the table
LoadDataClear ==
    /\ prog = "load_data"
    /\ pc = "start"
    /\ \E res \in DeleteResults :
         /\ delete_log' = Append(delete_log, res)
         /\ table' = IF res = "ok" THEN AfterDelete(table) ELSE table
         /\ IF ClearAborts(res)
            THEN /\ pc' = "aborted"
                 /\ loader' = "load_data"
                 /\ records' = staged
                 /\ UNCHANGED <<i, attempts, success_count, fail_count,
                                tries, last_res, outcome, handed, reports>>
            ELSE BeginLoop("load_data", staged,
                           IF res = "ok" THEN AfterDelete(table) ELSE table, "done")
    /\ UNCHANGED <<nvars, prog, staged, staged_exists, batch_size, run, trace>>

\* one pass of "for attempt in range(3)" for batch i
LoadDataInsert ==
    /\ pc = "insert"
    /\ loader = "load_data"
    /\ \E res \in InsertResults :
         /\ Call(res)
         /\ IF Acknowledged(loader, res)
            THEN EndBatch("succeeded", success_count + Len(Batches[i]), fail_count,
                          AfterInsert(table, Batches[i], res))
            ELSE IF GivesUp(loader, attempts + 1)
            THEN EndBatch("failed", success_count, fail_count,
                          AfterInsert(table, Batches[i], res))
            ELSE Retry
    /\ UNCHANGED <<nvars, prog, loader, staged, staged_exists, records, batch_size,
                   delete_log, run, trace>>


(* --------------------- ETL_URBAN/scripts/load.py ----------------------- *)
\* the module-level code of load.py up to the batch loop: read the staged
\* file; it runs when the script is run and when run_pipeline.py imports it
UrbanLoadRead ==
    /\ prog \in {"urban_load", "run_pipeline"}
    /\ pc = "start"
    /\ IF ~staged_exists
       THEN /\ pc' = "crashed"
            /\ UNCHANGED <<loader, records, i, attempts, success_count, fail_count,
                           tries, last_res, outcome, handed, reports, trace>>
       ELSE /\ BeginLoop("insert_batch", staged, table, 
                         IF prog = "run_pipeline" THEN "import_etl_analysis" ELSE "done")
            /\ trace' = IF prog = "run_pipeline" THEN Append(trace, "load") ELSE trace
    /\ UNCHANGED <<nvars, prog, staged, staged_exists, batch_size, table, delete_log, run>>

\* one pass of the while loop of insert_batch for batch i and, when
\* insert_batch returns, the counting of the batch loop
InsertBatchAttempt ==
    /\ pc = "insert"
    /\ loader = "insert_batch"
    /\ \E res \in InsertResults :
         /\ Call(res)
         /\ IF Acknowledged(loader, res)
            THEN EndBatch("succeeded", success_count + Len(Batches[i]), fail_count,
                          AfterInsert(table, Batches[i], res))
            ELSE IF GivesUp(loader, attempts + 1)
            THEN EndBatch("failed", success_count, fail_count + Len(Batches[i]),
                          AfterInsert(table, Batches[i], res))
            ELSE Retry
    /\ UNCHANGED <<nvars, prog, loader, staged, staged_exists, records, batch_size,
                   delete_log, run, trace>>

(* -------------------- ETL_LOGISTIC/scripts/load.py --------------------- *)
\* read the transformed CSV (skipped when the file is missing)
LogisticRead ==
    /\ prog = "logistic_load"
    /\ pc = "start"
    /\ BeginLoop("logistic", staged, table, "done")
    /\ UNCHANGED <<nvars, prog, staged, staged_exists, batch_size, table, delete_log, run, trace>>

\* one pass of "for _, row in ...iterrows()": one insert, no try
LogisticInsert ==
    /\ pc = "insert"
    /\ loader = "logistic"
    /\ \E res \in InsertResults :
         /\ Call(res)
         /\ IF Acknowledged(loader, res)
            THEN EndBatch("succeeded", success_count, fail_count,
                          AfterInsert(table, Batches[i], res))
            ELSE /\ pc' = AfterRowFault
                 /\ UNCHANGED <<i, attempts, success_count, fail_count, outcome, reports>>
    /\ UNCHANGED <<nvars, prog, loader, staged, staged_exists, records, batch_size,
                   delete_log, run, trace>>

(* ------------------ ETL_URBAN/scripts/run_pipeline.py ------------------ *)
\* "import etl_analysis" at the top of run_pipeline.py: the module-level code
\* of etl_analysis.py runs; it reads the table and exits when it is empty
ImportEtlAnalysis ==
    /\ pc = "import_etl_analysis"
    /\ trace' = Append(trace, "analysis")
    /\ \E res \in {"ok", "fault"} :
         pc' = IF res = "fault" THEN "crashed"
               ELSE IF table = <<>> THEN "exited"
               ELSE "main_extract"
    /\ UNCHANGED <<nvars, prog, loader, staged, staged_exists, records, batch_size, table,
                   i, attempts, success_count, fail_count, tries, last_res,
                   outcome, handed, delete_log, run, reports>>

\* main, step 1: fetch_all_cities()
MainExtract ==
    /\ pc = "main_extract"
    /\ trace' = Append(trace, "extract")
    /\ \E res \in {"ok", "fault"} :
         pc' = IF res = "fault" THEN "exited" ELSE "main_transform"
    /\ UNCHANGED <<nvars, prog, loader, staged, staged_exists, records, batch_size, table,
                   i, attempts, success_count, fail_count, tries, last_res,
                   outcome, handed, delete_log, run, reports>>

\* main, step 2: run_transform(); it writes the staged file unless it found
\* no valid data
MainTransform ==
    /\ pc = "main_transform"
    /\ trace' = Append(trace, "transform")
    /\ \E res \in {"ok", "fault"} :
         IF res = "fault"
         THEN /\ pc' = "exited"
              /\ UNCHANGED <<staged, staged_exists>>
         ELSE /\ pc' = "main_load"
              /\ \E n \in 0..MaxRows :
                   IF n = 0
                   THEN UNCHANGED <<staged, staged_exists>>
                   ELSE /\ staged' = StagedFile(n, "fresh")
                        /\ staged_exists' = TRUE
    /\ UNCHANGED <<nvars, prog, loader, records, batch_size, table,
                   i, attempts, success_count, fail_count, tries, last_res,
                   outcome, handed, delete_log, run, reports>>

\* main, step 3: run_load(), up to its batch loop
RunLoadRead ==
    /\ pc = "main_load"
    /\ trace' = Append(trace, "load")
    /\ IF ~staged_exists
       THEN /\ pc' = "main_analysis"
            /\ UNCHANGED <<loader, records, i, attempts, success_count, fail_count,
                           tries, last_res, outcome, handed, reports>>
       ELSE BeginLoop("run_load", staged, table, "main_analysis")
    /\ UNCHANGED <<nvars, prog, staged, staged_exists, batch_size, table, delete_log, run>>

\* one pass of "while attempts <= 2 and not inserted" of run_load and, when
\* the loop ends, the counting of the failed batch
RunLoadInsert ==
    /\ pc = "insert"
    /\ loader = "run_load"
    /\ \E res \in InsertResults :
         /\ Call(res)
         /\ IF Acknowledged(loader, res)
            THEN EndBatch("succeeded", success_count + Len(Batches[i]), fail_count,
                          AfterInsert(table, Batches[i], res))
            ELSE IF GivesUp(loader, attempts + 1)
            THEN EndBatch("failed", success_count, fail_count + Len(Batches[i]),
                          AfterInsert(table, Batches[i], res))
            ELSE Retry
    /\ UNCHANGED <<nvars, prog, loader, staged, staged_exists, records, batch_size,
                   delete_log, run, trace>>

\* main, step 4: "import etl_analysis" again; the module is already loaded,
\* so nothing runs
MainAnalysis ==
    /\ pc = "main_analysis"
    /\ pc' = "complete"
    /\ UNCHANGED <<nvars, prog, loader, staged, staged_exists, records, batch_size, table,
                   i, attempts, success_count, fail_count, tries, last_res,
                   outcome, handed, delete_log, run, reports, trace>>

(* ------------------------- running again ------------------------------- *)
\* load_data is run once more on the same staged file (a full refresh)
Rerun ==
    /\ prog = "load_data"
    /\ pc = "done"
    /\ run < MaxRuns
    /\ run' = run + 1
    /\ pc' = "start"
    /\ loader' = "none"
    /\ records' = <<>>
    /\ i' = 1
    /\ attempts' = 0
    /\ success_count' = 0
    /\ fail_count' = 0
    /\ tries' = <<>>
    /\ last_res' = <<>>
    /\ outcome' = <<>>
    /\ delete_log' = <<>>
    /\ handed' = <<>>
    /\ UNCHANGED <<nvars, prog, staged, staged_exists, batch_size, table, reports, trace>>

\* the stand-alone load scripts
LoadInit == Start({"load_data", "urban_load", "logistic_load"})

LoadNext ==
    \/ LoadDataClear
    \/ LoadDataInsert
    \/ UrbanLoadRead
    \/ InsertBatchAttempt
    \/ LogisticRead
    \/ LogisticInsert
    \/ Rerun

SpecLoad == LoadInit /\ [][LoadNext]_vars

\* one execution of run_pipeline.py
PipelineInit == Start({"run_pipeline"})

PipelineNext ==
    \/ UrbanLoadRead
    \/ InsertBatchAttempt
    \/ ImportEtlAnalysis
    \/ MainExtract
    \/ MainTransform
    \/ RunLoadRead
    \/ RunLoadInsert
    \/ MainAnalysis

SpecPipeline == PipelineInit /\ [][PipelineNext]_vars

(* ----------------- ETL_LOGISTIC/scripts/transform.py ------------------- *)
\* (mutant) classify_delay with < for <=
classify_delay_strict(x) ==
    IF x < 0 THEN "On-Time"
    ELSE IF x < SLIGHT_DELAY_MAX * Scale THEN "Slight Delay"
    ELSE IF x < MAJOR_DELAY_MAX * Scale THEN "Major Delay"
    ELSE "Critical Delay"

\* classify_delay(x), x in 1/Scale minutes
classify_delay(x) ==
    IF x <= 0 THEN "On-Time"
    ELSE IF x <= SLIGHT_DELAY_MAX * Scale THEN "Slight Delay"
    ELSE IF x <= MAJOR_DELAY_MAX * Scale THEN "Major Delay"
    ELSE "Critical Delay"

\* a delay_minutes value, from one minute early to MaxDelay minutes late
ClassifyInit ==
    /\ Quiet("classifier")
    /\ metric \in (0 - Scale)..(MaxDelay * Scale)
    /\ label = "unset"
    /\ clf = "classify_delay"
    /\ missing = FALSE
    /\ scores = <<>>
    /\ labels = <<>>

\* deliveries_df["delay_minutes"].apply(classify_delay), one value
ClassifyDelay ==
    /\ clf = "classify_delay"
    /\ label = "unset"
    /\ label' = classify_delay(metric)
    /\ UNCHANGED <<not_cvars, metric, clf, missing, scores, labels>>

ClassifyNext == ClassifyDelay

SpecClassify == ClassifyInit /\ [][ClassifyNext]_vars

(* ========================= the other classifiers ======================= *)
\* the category of a value that has none: None of the apply()'d functions,
\* NaN of pd.cut
NoCategory == "NaN"

\* the value to classify: NaN, or the number
Value == IF missing THEN Null ELSE <<metric>>

\* pd.isna(v); every comparison with NaN is False
IsNa(v) == v = Null
LE(v, c) == v # Null /\ v[1] <= c
GT(v, c) == v # Null /\ v[1] > c
LEQ(v, w) == v # Null /\ w # Null /\ v[1] <= w[1]

\* agent_score(delay), delay in 1/Scale minutes; the scores 5..1 as labels
agent_score(v) ==
    IF LE(v, 0) THEN "5"
    ELSE IF LE(v, 30 * Scale) THEN "4"
    ELSE IF LE(v, 60 * Scale) THEN "3"
    ELSE IF LE(v, 180 * Scale) THEN "2"
    ELSE "1"

\* risk_level(x), x the traffic_impact_score in 1/Scale units
risk_level(v) ==
    IF GT(v, 15 * Scale) THEN "High Risk"
    ELSE IF GT(v, 7 * Scale) THEN "Moderate Risk"
    ELSE "Low Risk"

\* compute_aqi(pm2_5)
compute_aqi(v) ==
    IF IsNa(v) THEN NoCategory
    ELSE IF LE(v, 50 * Scale) THEN "Good"
    ELSE IF LE(v, 100 * Scale) THEN "Moderate"
    ELSE IF LE(v, 200 * Scale) THEN "Unhealthy"
    ELSE IF LE(v, 300 * Scale) THEN "Very Unhealthy"
    ELSE "Hazardous"

\* compute_risk(sev)
compute_risk(v) ==
    IF GT(v, 400 * Scale) THEN "High Risk"
    ELSE IF GT(v, 200 * Scale) THEN "Moderate Risk"
    ELSE "Low Risk"

\* pd.cut(x, bins, labels, right=True): the bins (bins[k], bins[k+1]]
cut_right_closed(v, bins, lbls) ==
    LET hit == {k \in 1..Len(lbls) :
                    bins[k] * Scale < v[1] /\ v[1] <= bins[k + 1] * Scale}
    IN  IF IsNa(v) \/ hit = {} THEN NoCategory
        ELSE lbls[CHOOSE k \in hit : TRUE]

\* pd.cut(x, bins, labels, right=False): the bins [bins[k], bins[k+1]);
\* a value in no bin, and NaN, get NaN
cut(v, bins, lbls) ==
    LET hit == {k \in 1..Len(lbls) :
                    bins[k] * Scale <= v[1] /\ v[1] < bins[k + 1] * Scale}
    IN  IF IsNa(v) \/ hit = {} THEN NoCategory
        ELSE lbls[CHOOSE k \in hit : TRUE]

\* df["tenure_group"]; the labels are written with a hyphen for the source's
\* en dash
tenure_group(v) ==
    cut(v, <<0, 12, 24, 48, 60, 120>>,
        <<"0-1 year", "1-2 years", "2-4 years", "4-5 years", "5+ years">>)

\* df["monthly_charge_segment"]
monthly_charge_segment(v) ==
    cut(v, <<0, 35, 70, 120>>, <<"low", "medium", "high">>)

RECURSIVE dropna(_)
\* df["severity_score"].dropna(): the numbers of the column
dropna(col) ==
    IF col = <<>> THEN <<>>
    ELSE (IF Head(col) = Null THEN <<>> ELSE <<Head(col)[1]>>)
            \o dropna(Tail(col))

RECURSIVE insert(_, _)
insert(x, s) ==
    IF s = <<>> THEN <<x>>
    ELSE IF x <= Head(s) THEN <<x>> \o s
    ELSE <<Head(s)>> \o insert(x, Tail(s))

RECURSIVE sort_values(_)
\* the ascending order Series.quantile works on
sort_values(s) ==
    IF s = <<>> THEN <<>> ELSE insert(Head(s), sort_values(Tail(s)))

\* Series.quantile with interpolation="higher"
quantile_higher(sev, q) ==
    LET s == sort_values(sev)
        pos == (Len(s) - 1) * q
        lo == pos \div 100
    IN  IF s = <<>> THEN Null
        ELSE <<100 * s[IF pos % 100 = 0 THEN lo + 1 ELSE lo + 2]>>

\* sev.quantile(q / 100), hundredfold so that it is exact: linear
\* interpolation at the position (n - 1) * q / 100 of the sorted values;
\* NaN for an empty series
quantile(sev, q) ==
    LET s == sort_values(sev)
        pos == (Len(s) - 1) * q
        lo == pos \div 100
        frac == pos % 100
    IN  IF s = <<>> THEN Null
        ELSE IF frac = 0 THEN <<100 * s[lo + 1]>>
        ELSE <<100 * s[lo + 1] + frac * (s[lo + 2] - s[lo + 1])>>

low_thresh == quantile(dropna(scores), 33)
med_thresh == quantile(dropna(scores), 66)

\* dynamic_risk(x), the thresholds hundredfold
dynamic_risk(v) ==
    IF IsNa(v) THEN NoCategory
    ELSE IF LEQ(<<100 * v[1]>>, low_thresh) THEN "Low Risk"
    ELSE IF LEQ(<<100 * v[1]>>, med_thresh) THEN "Moderate Risk"
    ELSE "High Risk"

Classifiers ==
    {"classify_delay", "agent_score", "risk_level", "compute_aqi",
     "compute_risk", "tenure_group", "monthly_charge_segment", "dynamic_risk"}

\* delay_minutes is never NaN: the rows without a timestamp are dropped
NeverNull == {"classify_delay", "agent_score"}

\* a severity score of the table: NULL or a number
ScoreValues == {Null} \cup {<<v * Scale>> : v \in {10, 20, 30, 40, 50}}

\* the severity_score columns of 1..MaxScores rows
ScoreColumns == UNION {[1..n -> ScoreValues] : n \in 1..MaxScores}

\* the values a classifier is applied to: the metrics are not negative
Metrics == 0..(MaxDelay * Scale)

\* one classifier and one value of its column, or the severity_score column
\* that etl_analysis selects
CategoriesInit ==
    /\ Quiet("classifier")
    /\ clf \in Classifiers
    /\ label = "unset"
    /\ labels = <<>>
    /\ IF clf = "dynamic_risk"
       THEN /\ scores \in ScoreColumns
            /\ missing = FALSE
            /\ metric = 0
       ELSE /\ scores = <<>>
            /\ missing \in (IF clf \in NeverNull THEN {FALSE} ELSE BOOLEAN)
            /\ metric \in (IF missing THEN {0} ELSE Metrics)

\* column.apply(f) on one value
Apply(category) ==
    /\ label = "unset"
    /\ label' = category
    /\ UNCHANGED <<not_cvars, metric, clf, missing, scores, labels>>

AgentScore ==
    /\ clf = "agent_score"
    /\ Apply(agent_score(Value))

RiskLevel ==
    /\ clf = "risk_level"
    /\ Apply(risk_level(Value))

ComputeAqi ==
    /\ clf = "compute_aqi"
    /\ Apply(compute_aqi(Value))

ComputeRisk ==
    /\ clf = "compute_risk"
    /\ Apply(compute_risk(Value))

TenureGroup ==
    /\ clf = "tenure_group"
    /\ Apply(tenure_group(Value))

MonthlyChargeSegment ==
    /\ clf = "monthly_charge_segment"
    /\ Apply(monthly_charge_segment(Value))

\* df["dynamic_risk"] = df["severity_score"].apply(dynamic_risk)
DynamicRisk ==
    /\ clf = "dynamic_risk"
    /\ labels = <<>>
    /\ labels' = [k \in 1..Len(scores) |-> dynamic_risk(scores[k])]
    /\ UNCHANGED <<not_cvars, metric, label, clf, missing, scores>>

CategoriesNext ==
    \/ ClassifyDelay
    \/ AgentScore
    \/ RiskLevel
    \/ ComputeAqi
    \/ ComputeRisk
    \/ TenureGroup
    \/ MonthlyChargeSegment
    \/ DynamicRisk

SpecCategories == CategoriesInit /\ [][CategoriesNext]_vars

(* ===================== the air quality transform ======================= *)
\* NaN arithmetic of pandas: a product or a sum with NaN is NaN
Times(v, c) == IF v = Null THEN Null ELSE <<v[1] * c>>
Plus(v, w) == IF v = Null \/ w = Null THEN Null ELSE <<v[1] + w[1]>>

\* compute_severity(row)
compute_severity(row) ==
    Plus(Plus(Plus(Plus(Plus(Times(row.pm2_5, 5), Times(row.pm10, 3)),
                             Times(row.nitrogen_dioxide, 4)),
                        Times(row.sulphur_dioxide, 4)),
                   Times(row.carbon_monoxide, 2)),
         Times(row.ozone, 3))

\* poll_cols
poll_cols ==
    {"pm10", "pm2_5", "carbon_monoxide", "nitrogen_dioxide",
     "sulphur_dioxide", "ozone", "uv_index"}

\* one hourly reading after pd.to_numeric(errors="coerce"): NaN or a number
Readings == {Null, <<20 * Scale>>}

\* the hourly rows parse_raw_json builds; trim() pads a short array with None
RawRows ==
    [pm10 : Readings, pm2_5 : Readings, carbon_monoxide : Readings,
     nitrogen_dioxide : Readings, sulphur_dioxide : Readings,
     ozone : Readings, uv_index : Readings]

\* dropna(subset=poll_cols, how="all") drops a row only when every one of
\* poll_cols is NaN
Kept(row) == \E c \in poll_cols : row[c] # Null

\* the three derived columns of one row
Derived(row) ==
    [aqi_category |-> compute_aqi(row.pm2_5),
     severity_score |-> compute_severity(row),
     risk_flag |-> compute_risk(compute_severity(row))]

\* the raw files hold 0..MaxRaw hourly rows
TransformInit ==
    /\ Quiet("transform")
    /\ raw_rows \in UNION {[1..n -> RawRows] : n \in 0..MaxRaw}
    /\ frame = <<>>
    /\ tpc = "start"

\* run_transform up to the numeric conversion; it returns when no file has
\* a row
TransformRead ==
    /\ tpc = "start"
    /\ frame' = raw_rows
    /\ tpc' = IF raw_rows = <<>> THEN "no_data" ELSE "numeric"
    /\ UNCHANGED <<not_tvars, raw_rows>>

\* df = df.dropna(subset=poll_cols, how="all")
TransformDropna ==
    /\ tpc = "numeric"
    /\ frame' = SelectSeq(frame, Kept)
    /\ tpc' = "cleaned"
    /\ UNCHANGED <<not_tvars, raw_rows>>

\* aqi_category, severity_score, risk_flag; to_csv
TransformDerive ==
    /\ tpc = "cleaned"
    /\ frame' = [k \in 1..Len(frame) |-> frame[k] @@ Derived(frame[k])]
    /\ tpc' = "written"
    /\ UNCHANGED <<not_tvars, raw_rows>>

TransformNext ==
    \/ TransformRead
    \/ TransformDropna
    \/ TransformDerive

SpecTransform == TransformInit /\ [][TransformNext]_vars

(* ===================== properties of the loaders ======================= *)
RECURSIVE RowsWith(_, _)
\* the rows of the batches 1..k of this run whose verdict is v
RowsWith(v, k) ==
    IF k = 0 THEN 0
    ELSE (IF outcome[k] = v THEN Len(Batches[k]) ELSE 0) + RowsWith(v, k - 1)

RECURSIVE Concat(_)
Concat(ss) == IF ss = <<>> THEN <<>> ELSE Head(ss) \o Concat(Tail(ss))

\* the attempts a loader is configured to make: range(3); RETRY_LIMIT
\* retries after the first attempt; "attempts <= 2"
ConfiguredAttempts(l) ==
    IF l = "load_data" THEN LOAD_DATA_ATTEMPTS
    ELSE IF l = "insert_batch" THEN RETRY_LIMIT + 1
    ELSE RUN_LOAD_RETRIES + 1

\* an insert call was issued in this run
AnyInsert == \E k \in DOMAIN tries : tries[k] > 0

\* the batch loop of the running loader has run to its end
LoopOver ==
    loader # "none" /\ pc \notin {"start", "insert", "aborted", "crashed", "insert_raised"}

\* C1 (stated as claimed): in load_data, insert_batch and run_load a batch
\* that failed on every attempt was attempted exactly the configured number
\* of times, its rows are in the loader's record of failures and none of
\* them is in the success count.
C1_RetryBound ==
    loader \in {"load_data", "insert_batch", "run_load"} =>
        /\ \A k \in DOMAIN outcome :
             outcome[k] = "failed" =>
                 /\ tries[k] = ConfiguredAttempts(loader)
                 /\ last_res[k] # "ok"
        /\ fail_count = RowsWith("failed", Len(outcome))
        /\ success_count = RowsWith("succeeded", Len(outcome))

\* C2 (stated as claimed): an insert fault never ends the load: no script is
\* ended by an exception of an insert call, a batch that exhausted its
\* attempts is recorded as failed, and when the loop is over every batch was
\* tried.
C2_FailureIsolation ==
    /\ pc # "insert_raised"
    /\ LoopOver => \A k \in DOMAIN tries : tries[k] >= 1
    /\ loader \in {"load_data", "insert_batch", "run_load"} =>
           fail_count = RowsWith("failed", Len(outcome))

\* C3: load_data issues at most one delete-all per run, every insert call
\* comes after a delete-all that succeeded, and after a delete-all that
\* failed the run is aborted with no insert call issued.
C3_ClearFirst ==
    prog = "load_data" =>
        /\ Len(delete_log) <= 1
        /\ pc \in {"insert", "done"} => delete_log = <<"ok">>
        /\ AnyInsert => delete_log = <<"ok">>
        /\ delete_log = <<"fault">> => (pc = "aborted" /\ ~AnyInsert /\ handed = <<>>)

\* C3 witness: a second run of load_data is aborted by its delete-all, after
\* a first run that cleared the table and inserted rows.
C3_Witness ==
    /\ prog = "load_data"
    /\ run = 2
    /\ pc = "aborted"
    /\ delete_log = <<"fault">>
    /\ Len(staged) > 0
    /\ Len(reports) = 1
    /\ reports[1].succeeded > 0

C5_Partition ==
    loader # "none" =>
        /\ Len(Concat(handed)) <= Len(records)
        /\ Concat(handed) = SubSeq(records, 1, Len(Concat(handed)))
        /\ LoopOver => Concat(handed) = records

\* C5 witness: a finished load whose last batch is shorter than the others.
C5_Witness ==
    /\ LoopOver
    /\ loader \in {"load_data", "insert_batch", "run_load"}
    /\ Len(handed) > 1
    /\ Len(handed[Len(handed)]) < batch_size

\* C6: every batch handed to an insert call holds between 1 and batch_size
\* rows, every batch but the last holds exactly batch_size rows, and an empty
\* record sequence gives no batch.
C6_BatchSize ==
    loader # "none" =>
        /\ \A k \in 1..Len(handed) :
             /\ 1 <= Len(handed[k])
             /\ Len(handed[k]) <= batch_size
             /\ k < Len(Batches) => Len(handed[k]) = batch_size
        /\ records = <<>> => (Len(Batches) = 0 /\ handed = <<>>)

\* C6 witness: a finished load of an exact multiple of the batch size, of
\* more than one batch of more than one row.
C6_Witness ==
    /\ LoopOver
    /\ batch_size > 1
    /\ Len(handed) > 1
    /\ Len(handed[Len(handed)]) = batch_size

\* C7 (stated as claimed): in every report of load_data, load.py and
\* run_load, rows succeeded plus rows failed equals the total rows.
C7_Accounting ==
    prog \in {"load_data", "urban_load", "run_pipeline"} =>
        \A r \in 1..Len(reports) :
            reports[r].succeeded + reports[r].failed = reports[r].total

\* C8 (stated as claimed): in load_data and insert_batch a batch is credited
\* as succeeded only when its last insert call was acknowledged by the
\* target; an empty response is not a success.
C8_AcknowledgedOnly ==
    loader \in {"load_data", "insert_batch"} =>
        \A k \in DOMAIN outcome : outcome[k] = "succeeded" => last_res[k] = "ok"

\* C9 (stated as claimed): a completed execution of run_pipeline.py
\* performed extract, transform, load and analysis, once each, in this order.
C9_StageOrder ==
    (prog = "run_pipeline" /\ pc = "complete") =>
        trace = <<"extract", "transform", "load", "analysis">>


(* =================== properties of the classifiers ===================== *)
\* C10: classify_delay gives "On-Time" for 0, "Slight Delay" for 60,
\* "Major Delay" for every value above 60 and up to 180 (60.01, 90) and
\* "Critical Delay" for every value above 180 (500).
C10_DelayBoundaries ==
    label # "unset" =>
        /\ metric = 0 => label = "On-Time"
        /\ metric = SLIGHT_DELAY_MAX * Scale => label = "Slight Delay"
        /\ (metric > SLIGHT_DELAY_MAX * Scale /\ metric <= MAJOR_DELAY_MAX * Scale)
               => label = "Major Delay"
        /\ metric > MAJOR_DELAY_MAX * Scale => label = "Critical Delay"

\* C10 witness: the smallest value above 60 that the model holds was
\* classified "Major Delay".
C10_Witness ==
    /\ metric = SLIGHT_DELAY_MAX * Scale + 1
    /\ label = "Major Delay"


(* ======================== the delivery transform ======================= *)
\* the (source_city, destination_city) pairs
Routes == {1, 2}

\* a timestamp after pd.to_datetime(errors="coerce"): NaT or minutes
ExpectedTimes == {Null, <<60>>}
ActualTimes == {Null, <<30>>, <<60>>, <<300>>}

\* the rows of the deliveries file: deliveries on the first route
DeliveryRows ==
    [dispatch_time : {Null, <<0>>}, expected_delivery_time : ExpectedTimes,
     actual_delivery_time : ActualTimes, route : {1},
     package_weight : {10}]

\* the rows of a traffic file that has the columns cols
TrafficRows(cols) ==
    [route : Routes,
     congestion_score :
        IF "congestion_score" \in cols THEN {<<5>>, <<80>>} ELSE {Null},
     avg_route_speed :
        IF "avg_route_speed" \in cols THEN {<<0>>, <<40>>} ELSE {Null}]

TrafficFiles ==
    UNION {[cols : {cols},
            rows : UNION {[1..n -> TrafficRows(cols)] : n \in 0..MaxRoutes}] :
                cols \in SUBSET {"congestion_score", "avg_route_speed"}}

\* dropna(subset=[the three timestamps])
HasTimestamps(row) ==
    /\ row.dispatch_time # Null
    /\ row.expected_delivery_time # Null
    /\ row.actual_delivery_time # Null

\* actual_delivery_time > expected_delivery_time
DeliveredLate(row) ==
    row.actual_delivery_time[1] > row.expected_delivery_time[1]

\* actual_delivery_time >= expected_delivery_time
DeliveredOnOrAfter(row) ==
    row.actual_delivery_time[1] >= row.expected_delivery_time[1]

\* the largest package_weight, 0 for no row (NaN > 1000 is False)
MaxWeight(df) ==
    IF df = <<>> THEN 0
    ELSE CHOOSE w \in {df[k].package_weight : k \in 1..Len(df)} :
            \A k \in 1..Len(df) : df[k].package_weight <= w

\* delay_minutes, in 1/Scale minutes
delay_minutes(row) ==
    (row.actual_delivery_time[1] - row.expected_delivery_time[1]) * Scale

\* the number that agent_score returns, for its label
ScoreNumber(lbl) ==
    CASE lbl = "5" -> 5 [] lbl = "4" -> 4 [] lbl = "3" -> 3 [] lbl = "2" -> 2
      [] OTHER -> 1

\* float inf: greater than every threshold
Infinity == <<1000000000>>

\* congestion_score * (1 / avg_route_speed) * 10, in 1/Scale units; a zero
\* speed gives inf (NaN for 0 * inf), a NaN operand gives NaN
traffic_impact_score(row) ==
    IF row.congestion_score = Null \/ row.avg_route_speed = Null THEN Null
    ELSE IF row.avg_route_speed[1] = 0
         THEN (IF row.congestion_score[1] = 0 THEN Null ELSE Infinity)
    ELSE <<(row.congestion_score[1] * 10 * Scale) \div row.avg_route_speed[1]>>

\* (package_weight / (delay_minutes + 1)) * agent_score, in 1/Scale units
delivery_efficiency_index(row) ==
    (row.package_weight * Scale * Scale * ScoreNumber(row.agent_score))
        \div (row.delay_minutes + Scale)

\* the traffic columns of the rows that a left merge gives one delivery: one
\* row per route of traffic_df with the same cities, one of NaN when there
\* is none
Matches(row, tdf) ==
    LET m == SelectSeq(tdf, LAMBDA t : t.route = row.route)
    IN  IF m = <<>>
        THEN <<[congestion_score |-> Null, avg_route_speed |-> Null]>>
        ELSE [k \in 1..Len(m) |->
                [congestion_score |-> m[k].congestion_score,
                 avg_route_speed |-> m[k].avg_route_speed]]

\* deliveries_df.merge(traffic_df[...], on=[...], how="left")
LeftMerge(ddf, tdf) ==
    Concat([k \in 1..Len(ddf) |->
                [j \in 1..Len(Matches(ddf[k], tdf)) |->
                    ddf[k] @@ Matches(ddf[k], tdf)[j]]])

DeliveriesInit ==
    /\ Quiet("deliveries")
    /\ deliveries_raw \in UNION {[1..n -> DeliveryRows] : n \in 0..MaxDeliveries}
    /\ traffic_raw \in TrafficFiles
    /\ deliveries_df = <<>>
    /\ traffic_df = <<>>
    /\ merged_df = <<>>
    /\ dpc = "start"

\* pd.read_json of the two files; the index of a row is its position
ReadJson ==
    /\ dpc = "start"
    /\ deliveries_df' =
            [k \in 1..Len(deliveries_raw) |->
                deliveries_raw[k] @@ [index |-> k]]
    /\ traffic_df' = traffic_raw.rows
    /\ dpc' = "loaded"
    /\ UNCHANGED <<not_dvars, deliveries_raw, traffic_raw, merged_df>>

\* a column the traffic file lacks is created with its default: 5, 40
EnsureTrafficColumns ==
    /\ dpc = "loaded"
    /\ traffic_df' =
            [k \in 1..Len(traffic_df) |->
                [route |-> traffic_df[k].route,
                 congestion_score |->
                    IF "congestion_score" \notin traffic_raw.cols
                    THEN <<5>> ELSE traffic_df[k].congestion_score,
                 avg_route_speed |->
                    IF "avg_route_speed" \notin traffic_raw.cols
                    THEN <<40>> ELSE traffic_df[k].avg_route_speed]]
    /\ dpc' = "ensured"
    /\ UNCHANGED <<not_dvars, deliveries_raw, traffic_raw, deliveries_df,
                   merged_df>>

\* to_datetime on the three timestamps, dropna on them
DropInvalid ==
    /\ dpc = "ensured"
    /\ deliveries_df' = SelectSeq(deliveries_df, HasTimestamps)
    /\ dpc' = "parsed"
    /\ UNCHANGED <<not_dvars, deliveries_raw, traffic_raw, traffic_df,
                   merged_df>>

\* deliveries_df[actual_delivery_time >= expected_delivery_time]
FilterDelivered ==
    /\ dpc = "parsed"
    /\ deliveries_df' = SelectSeq(deliveries_df, DeliveredOnOrAfter)
    /\ dpc' = "filtered"
    /\ UNCHANGED <<not_dvars, deliveries_raw, traffic_raw, traffic_df,
                   merged_df>>

\* the weight in kg, delay_minutes, delay_class, agent_score
ScoreDelays ==
    /\ dpc = "filtered"
    /\ deliveries_df' =
            [k \in 1..Len(deliveries_df) |->
                [delay_minutes |-> delay_minutes(deliveries_df[k]),
                 delay_class |-> classify_delay(delay_minutes(deliveries_df[k])),
                 agent_score |-> agent_score(<<delay_minutes(deliveries_df[k])>>),
                 package_weight |->
                    IF MaxWeight(deliveries_df) > 1000
                    THEN deliveries_df[k].package_weight \div 1000
                    ELSE deliveries_df[k].package_weight]
                @@ deliveries_df[k]]
    /\ dpc' = "scored"
    /\ UNCHANGED <<not_dvars, deliveries_raw, traffic_raw, traffic_df,
                   merged_df>>

\* merged_df = deliveries_df.merge(...)
MergeTraffic ==
    /\ dpc = "scored"
    /\ merged_df' = LeftMerge(deliveries_df, traffic_df)
    /\ dpc' = "merged"
    /\ UNCHANGED <<not_dvars, deliveries_raw, traffic_raw, deliveries_df,
                   traffic_df>>

\* traffic_impact_score, predicted_delay_risk_level,
\* delivery_efficiency_index; to_csv
Features ==
    /\ dpc = "merged"
    /\ merged_df' =
            [k \in 1..Len(merged_df) |->
                merged_df[k] @@
                [traffic_impact_score |-> traffic_impact_score(merged_df[k]),
                 predicted_delay_risk_level |->
                    risk_level(traffic_impact_score(merged_df[k])),
                 delivery_efficiency_index |->
                    delivery_efficiency_index(merged_df[k])]]
    /\ dpc' = "saved"
    /\ UNCHANGED <<not_dvars, deliveries_raw, traffic_raw, deliveries_df,
                   traffic_df>>

DeliveriesNext ==
    \/ ReadJson
    \/ EnsureTrafficColumns
    \/ DropInvalid
    \/ FilterDelivered
    \/ ScoreDelays
    \/ MergeTraffic
    \/ Features

SpecDeliveries == DeliveriesInit /\ [][DeliveriesNext]_vars

(* ============================ the extraction =========================== *)
\* the try block of one attempt: the response is saved, or something in it
\* raises (the request, raise_for_status, the JSON, _save_raw)
FetchResults == {"ok", "raised"}

\* wait = 2 ** attempt
wait_late(n) == 2 ^ n

\* wait = 2 ** (attempt - 1)
wait(n) == 2 ^ (n - 1)

ExtractInit ==
    /\ Quiet("extract")
    /\ cities \in 0..MaxCities
    /\ city = 0
    /\ attempt = 0
    /\ events = <<>>
    /\ saved_files = <<>>
    /\ epc = "loop"

\* for city in cities: _fetch_city(city) is entered, attempt = 0
StartCity ==
    /\ epc = "loop"
    /\ city < cities
    /\ city' = city + 1
    /\ attempt' = 0
    /\ epc' = "fetch"
    /\ UNCHANGED <<not_evars, cities, events, saved_files>>

\* one pass of the while loop of _fetch_city: on success the path is
\* returned, appended to saved_files, and the loop of fetch_all_cities
\* sleeps and goes on; on an exception the function sleeps wait seconds
FetchAttempt ==
    /\ epc = "fetch"
    /\ attempt < MAX_RETRIES
    /\ attempt' = attempt + 1
    /\ \E res \in FetchResults :
        IF res = "ok"
        THEN /\ events' = Append(events,
                    [city |-> city, attempt |-> attempt', res |-> res,
                     sleep |-> Null])
             /\ saved_files' = Append(saved_files, city)
             /\ epc' = "loop"
        ELSE /\ events' = Append(events,
                    [city |-> city, attempt |-> attempt', res |-> res,
                     sleep |-> <<wait(attempt')>>])
             /\ saved_files' = saved_files
             /\ epc' = "fetch"
    /\ UNCHANGED <<not_evars, cities, city>>

\* the while loop ends: _fetch_city logs the error and returns None, which
\* fetch_all_cities does not append
ReturnNone ==
    /\ epc = "fetch"
    /\ attempt >= MAX_RETRIES
    /\ epc' = "loop"
    /\ UNCHANGED <<not_evars, cities, city, attempt, events, saved_files>>

\* return saved_files
ReturnSavedFiles ==
    /\ epc = "loop"
    /\ city >= cities
    /\ epc' = "done"
    /\ UNCHANGED <<not_evars, cities, city, attempt, events, saved_files>>

ExtractNext ==
    \/ StartCity
    \/ FetchAttempt
    \/ ReturnNone
    \/ ReturnSavedFiles

SpecExtract == ExtractInit /\ [][ExtractNext]_vars

(* ================= the column selection of the churn load ============== *)
\* required_cols
required_cols ==
    {"tenure", "monthlycharges", "totalcharges", "churn", "internetservice",
     "contract", "paymentmethod", "tenure_group", "monthly_charge_segment",
     "has_internet_service", "is_multi_line_user", "contract_type_code"}

\* the column names transform_data writes that the table has a column for,
\* and three of those it writes that the table has none for
StagedNames ==
    {"tenure", "MonthlyCharges", "TotalCharges", "Churn", "InternetService",
     "Contract", "PaymentMethod", "tenure_group", "monthly_charge_segment",
     "has_internet_service", "is_multi_line_user", "contract_type_code",
     "gender", "MultipleLines", "churn_flag"}

\* str.lower() of a column name
lower(name) ==
    CASE name = "MonthlyCharges" -> "monthlycharges"
      [] name = "TotalCharges" -> "totalcharges"
      [] name = "Churn" -> "churn"
      [] name = "InternetService" -> "internetservice"
      [] name = "Contract" -> "contract"
      [] name = "PaymentMethod" -> "paymentmethod"
      [] name = "MultipleLines" -> "multiplelines"
      [] OTHER -> name

\* df[required_cols] would raise if the columns were not the required ones
KeyErrorOnDrift(cols) == cols # required_cols

\* df[required_cols] raises KeyError when a required column is not in df
KeyError(cols) == ~(required_cols \subseteq cols)

\* a staged file with any of the names in its header
SchemaInit ==
    /\ Quiet("schema")
    /\ file_columns \in SUBSET StagedNames
    /\ df_columns = {}
    /\ spc = "start"

\* df = pd.read_csv(transformed_path); df.columns = df.columns.str.lower()
ReadCsv ==
    /\ spc = "start"
    /\ df_columns' = {lower(c) : c \in file_columns}
    /\ spc' = "read"
    /\ UNCHANGED <<not_svars, file_columns>>

\* df = df[required_cols]: the other columns are dropped; load_data ends with
\* the KeyError when a required column is missing
SelectRequired ==
    /\ spc = "read"
    /\ IF KeyError(df_columns)
       THEN /\ spc' = "key_error"
            /\ UNCHANGED df_columns
       ELSE /\ spc' = "selected"
            /\ df_columns' = required_cols
    /\ UNCHANGED <<not_svars, file_columns>>

\* the records are built and the table is cleared; the batches follow
ClearTable ==
    /\ spc = "selected"
    /\ spc' = "cleared"
    /\ UNCHANGED <<not_svars, file_columns, df_columns>>

SchemaNext ==
    \/ ReadCsv
    \/ SelectRequired
    \/ ClearTable

SpecSchema == SchemaInit /\ [][SchemaNext]_vars

(* ============================ the validation =========================== *)
\* the k-th row of the table: the columns validate_data looks at
DbRow(k) ==
    [id |-> k,
     tenure |-> <<40 * k>>,
     monthlycharges |-> <<30 * k>>,
     totalcharges |-> IF k = 5 THEN Null ELSE <<1200 * k * k>>,
     tenure_group |-> tenure_group(<<40 * k * Scale>>),
     monthly_charge_segment |-> monthly_charge_segment(<<30 * k * Scale>>),
     contract_type_code |-> k % 4]

DbTable(n) == [k \in 1..n |-> DbRow(k)]

\* .range(first, last): the rows at the offsets first..last of the table,
\* which does not change during the read
Range(t, first, last) == SubSeq(t, first + 1, Min(last + 1, Len(t)))

\* .range(start, start + batch_size - 1)
RangePage(t, from) == Range(t, from, from + PageSize - 1)

\* the three numeric columns have no null
NoMissingValues(df) ==
    \A k \in 1..Len(df) :
        /\ df[k].tenure # Null
        /\ df[k].monthlycharges # Null
        /\ df[k].totalcharges # Null

\* df_db.drop_duplicates().shape[0]
unique_rows(df) == Cardinality({df[k] : k \in 1..Len(df)})

\* set(df_db["contract_type_code"].unique()) - valid_codes
invalid_codes(df) == {df[k].contract_type_code : k \in 1..Len(df)} \ {0, 1, 2}

ValidateInit ==
    /\ Quiet("validate")
    /\ db_table \in {DbTable(n) : n \in 0..MaxTable}
    /\ csv_len \in 0..MaxTable
    /\ fetch_start = 0
    /\ all_data = <<>>
    /\ requests = <<>>
    /\ checks = <<>>
    /\ vpc = "fetch"

\* one pass of the loop of fetch_all_rows: an empty page ends it
FetchPage ==
    /\ vpc = "fetch"
    /\ requests' = Append(requests, fetch_start)
    /\ IF RangePage(db_table, fetch_start) = <<>>
       THEN /\ vpc' = "fetched"
            /\ UNCHANGED <<all_data, fetch_start>>
       ELSE /\ all_data' = all_data \o RangePage(db_table, fetch_start)
            /\ fetch_start' = fetch_start + PageSize
            /\ vpc' = "fetch"
    /\ UNCHANGED <<not_vvars, db_table, csv_len, checks>>

\* the missing values check and the unique rows; a DataFrame built from an
\* empty list has no columns, and selecting the three columns raises KeyError
CheckMissingValues ==
    /\ vpc = "fetched"
    /\ IF all_data = <<>>
       THEN /\ vpc' = "key_error"
            /\ UNCHANGED checks
       ELSE /\ vpc' = "row_count"
            /\ checks' = checks \o
                    <<IF NoMissingValues(all_data)
                      THEN "no_missing_values" ELSE "missing_values",
                      <<"unique_rows", unique_rows(all_data)>>>>
    /\ UNCHANGED <<not_vvars, db_table, csv_len, fetch_start, all_data, requests>>

\* if len(df_csv) == len(df_db)
CheckRowCount ==
    /\ vpc = "row_count"
    /\ checks' = Append(checks,
            IF csv_len = Len(all_data) THEN "count_match" ELSE "count_mismatch")
    /\ vpc' = "segments"
    /\ UNCHANGED <<not_vvars, db_table, csv_len, fetch_start, all_data, requests>>

\* the two segment columns, then the contract codes
CheckSegmentsAndCodes ==
    /\ vpc = "segments"
    /\ checks' = checks \o
            <<IF \A k \in 1..Len(all_data) :
                    all_data[k].tenure_group # NoCategory
              THEN "tenure_group_exists" ELSE "tenure_group_missing",
              IF \A k \in 1..Len(all_data) :
                    all_data[k].monthly_charge_segment # NoCategory
              THEN "segment_exists" ELSE "segment_missing",
              IF invalid_codes(all_data) = {}
              THEN "codes_valid" ELSE "codes_invalid">>
    /\ vpc' = "complete"
    /\ UNCHANGED <<not_vvars, db_table, csv_len, fetch_start, all_data, requests>>

ValidateNext ==
    \/ FetchPage
    \/ CheckMissingValues
    \/ CheckRowCount
    \/ CheckSegmentsAndCodes

SpecValidate == ValidateInit /\ [][ValidateNext]_vars

(* ========================= the churn transform ========================= *)
\* the Contract cell of a raw row: missing, one of the three contracts of the
\* data set, or something else
Contracts ==
    {Null, <<"Month-to-month">>, <<"One year">>, <<"Two year">>,
     <<"Quarterly">>}

RECURSIVE ffill_from(_, _)
\* the column with every NaN replaced by the last value before it, last
\* being the value before the column
ffill_from(last, col) ==
    IF col = <<>> THEN <<>>
    ELSE IF Head(col) = Null THEN <<last>> \o ffill_from(last, Tail(col))
    ELSE <<Head(col)>> \o ffill_from(Head(col), Tail(col))

\* Series.ffill(): a NaN before the first value stays
ffill(col) == ffill_from(Null, col)

\* the column as it is, not lower-cased
str_unchanged(v) == v

\* col.str.lower() on one cell; NaN stays NaN
str_lower(v) ==
    CASE v = <<"Month-to-month">> -> <<"month-to-month">>
      [] v = <<"One year">> -> <<"one year">>
      [] v = <<"Two year">> -> <<"two year">>
      [] v = <<"Quarterly">> -> <<"quarterly">>
      [] OTHER -> v

\* df["Contract"].map(contract_map): NaN for a value that is no key
contract_map(v) ==
    CASE v = <<"month-to-month">> -> <<0>>
      [] v = <<"one year">> -> <<1>>
      [] v = <<"two year">> -> <<2>>
      [] OTHER -> Null

\* .fillna(0).astype(int)
fillna_0(v) == IF v = Null THEN 0 ELSE v[1]

ChurnInit ==
    /\ Quiet("churn")
    /\ churn_raw \in UNION {[1..n -> Contracts] : n \in 0..MaxChurn}
    /\ churn_df = <<>>
    /\ kpc = "start"

\* read_csv and the missing values: df = df.ffill()
ForwardFill ==
    /\ kpc = "start"
    /\ churn_df' = [k \in 1..Len(churn_raw) |-> [Contract |-> ffill(churn_raw)[k]]]
    /\ kpc' = "filled"
    /\ UNCHANGED <<not_kvars, churn_raw>>

\* df[cat_cols] = df[cat_cols].apply(lambda col: col.str.lower())
LowerCase ==
    /\ kpc = "filled"
    /\ churn_df' =
            [k \in 1..Len(churn_df) |-> [Contract |-> str_lower(churn_df[k].Contract)]]
    /\ kpc' = "lowered"
    /\ UNCHANGED <<not_kvars, churn_raw>>

\* contract_type_code, then the file is written
EncodeContract ==
    /\ kpc = "lowered"
    /\ churn_df' =
            [k \in 1..Len(churn_df) |->
                [Contract |-> churn_df[k].Contract,
                 contract_type_code |->
                    fillna_0(contract_map(churn_df[k].Contract))]]
    /\ kpc' = "encoded"
    /\ UNCHANGED <<not_kvars, churn_raw>>

ChurnNext ==
    \/ ForwardFill
    \/ LowerCase
    \/ EncodeContract

SpecChurn == ChurnInit /\ [][ChurnNext]_vars

(* ==================== properties of the classifiers ==================== *)
\* a classifier has been applied to a number
Classified == label # "unset" /\ ~missing

\* the classifiers that compare against thresholds
ThresholdClassifiers ==
    {"classify_delay", "agent_score", "risk_level", "compute_aqi",
     "compute_risk"}

\* the cut points of a classifier, in ascending order, each with the bucket
\* it closes; then the bucket after the last one
CutPoints(c) ==
    CASE c = "classify_delay" ->
            <<<<0, "On-Time">>, <<60, "Slight Delay">>, <<180, "Major Delay">>>>
      [] c = "agent_score" ->
            <<<<0, "5">>, <<30, "4">>, <<60, "3">>, <<180, "2">>>>
      [] c = "risk_level" -> <<<<7, "Low Risk">>, <<15, "Moderate Risk">>>>
      [] c = "compute_aqi" ->
            <<<<50, "Good">>, <<100, "Moderate">>, <<200, "Unhealthy">>,
              <<300, "Very Unhealthy">>>>
      [] c = "compute_risk" -> <<<<200, "Low Risk">>, <<400, "Moderate Risk">>>>
      [] c = "tenure_group" ->
            <<<<12, "0-1 year">>, <<24, "1-2 years">>, <<48, "2-4 years">>,
              <<60, "4-5 years">>>>
      [] c = "monthly_charge_segment" -> <<<<35, "low">>, <<70, "medium">>>>
      [] OTHER -> <<>>

FinalLabel(c) ==
    CASE c = "classify_delay" -> "Critical Delay"
      [] c = "agent_score" -> "1"
      [] c = "risk_level" -> "High Risk"
      [] c = "compute_aqi" -> "Hazardous"
      [] c = "compute_risk" -> "High Risk"
      [] c = "tenure_group" -> "5+ years"
      [] c = "monthly_charge_segment" -> "high"
      [] OTHER -> "High Risk"

\* the bucket after the one that the k-th cut point closes
NextBucket(c, k) ==
    IF k < Len(CutPoints(c)) THEN CutPoints(c)[k + 1][2] ELSE FinalLabel(c)

\* the rows of the severity_score column that equal the threshold t
TiedRows(t) ==
    {k \in 1..Len(scores) :
        scores[k] # Null /\ t # Null /\ 100 * scores[k][1] = t[1]}

\* C11 as claimed: in every classifier a value equal to a cut point is in
\* the bucket that the cut point closes, never in the next one.
C11_Original ==
    /\ Classified =>
        \A k \in 1..Len(CutPoints(clf)) :
            metric = CutPoints(clf)[k][1] * Scale
                => label = CutPoints(clf)[k][2]
    /\ labels # <<>> =>
        /\ \A k \in TiedRows(low_thresh) : labels[k] = "Low Risk"
        /\ \A k \in TiedRows(med_thresh) \ TiedRows(low_thresh) :
                labels[k] = "Moderate Risk"

\* C11 amended: a value equal to a cut point is in the bucket the cut point
\* closes in classify_delay, agent_score, risk_level, compute_aqi,
\* compute_risk and dynamic_risk; in the tenure_group and
\* monthly_charge_segment binning, whose bins are closed on the left, it is
\* in the next bucket.
C11_Ties ==
    /\ Classified =>
        \A k \in 1..Len(CutPoints(clf)) :
            metric = CutPoints(clf)[k][1] * Scale =>
                label = IF clf \in ThresholdClassifiers
                        THEN CutPoints(clf)[k][2]
                        ELSE NextBucket(clf, k)
    /\ labels # <<>> =>
        /\ \A k \in TiedRows(low_thresh) : labels[k] = "Low Risk"
        /\ \A k \in TiedRows(med_thresh) \ TiedRows(low_thresh) :
                labels[k] = "Moderate Risk"

\* a tenure of 24 months has been binned
C11_Witness ==
    /\ clf = "tenure_group"
    /\ Classified
    /\ metric = 24 * Scale
    /\ label = "2-4 years"

\* C12: a classifier maps a missing metric to no category, never to a real
\* label: in the transformed air quality rows a NaN severity_score has no
\* risk_flag and a NaN pm2_5 has no aqi_category.
C12_NullPropagation ==
    tpc = "written" =>
        \A k \in 1..Len(frame) :
            /\ frame[k].severity_score = Null => frame[k].risk_flag = NoCategory
            /\ frame[k].pm2_5 = Null => frame[k].aqi_category = NoCategory

\* the label of the first cut point of c whose upper bound x does not
\* exceed, the final label when x exceeds them all
FirstMatch(c, x) ==
    LET hits == {k \in 1..Len(CutPoints(c)) : x <= CutPoints(c)[k][1] * Scale}
    IN  IF hits = {} THEN FinalLabel(c)
        ELSE CutPoints(c)[CHOOSE k \in hits : \A j \in hits : k <= j][2]

\* a cut point of c is exactly x
AtCutPoint(c, x) ==
    \E k \in 1..Len(CutPoints(c)) : x = CutPoints(c)[k][1] * Scale

\* C13: the static cut points are total: a number is never left without a
\* category, and it gets the label of the first cut point whose upper bound
\* it does not exceed, the final label beyond the last bound (a number equal
\* to a cut point is the subject of C11).
C13_Total ==
    Classified =>
        /\ label # NoCategory
        /\ ~AtCutPoint(clf, metric) => label = FirstMatch(clf, metric)

\* the run's severity scores are 10, 20, 30, 40, 50 in some order
FiveScores ==
    sort_values(dropna(scores))
        = <<10 * Scale, 20 * Scale, 30 * Scale, 40 * Scale, 50 * Scale>>

\* the band of the scores 10..50 of the scenario
FiveScoresBand(x) ==
    IF x <= 20 * Scale THEN "Low Risk"
    ELSE IF x = 30 * Scale THEN "Moderate Risk"
    ELSE "High Risk"

\* C14: with the 0.33 and 0.66 quantiles of the run's own non-null severity
\* scores as cut points, a score is Low exactly when it is at or below the
\* first quantile, Moderate exactly when it is above the first and at or
\* below the second, High otherwise; of the scores 10, 20, 30, 40, 50 the
\* first two are Low, 30 is Moderate and 40, 50 are High.
C14_Tertiles ==
    labels # <<>> =>
        \A k \in 1..Len(scores) :
            scores[k] # Null =>
                /\ labels[k] = "Low Risk"
                        <=> 100 * scores[k][1] <= low_thresh[1]
                /\ labels[k] = "Moderate Risk"
                        <=> /\ 100 * scores[k][1] > low_thresh[1]
                            /\ 100 * scores[k][1] <= med_thresh[1]
                /\ labels[k] = "High Risk"
                        <=> 100 * scores[k][1] > med_thresh[1]
                /\ FiveScores => labels[k] = FiveScoresBand(scores[k][1])

\* the scores 30, 10, 50, 20, 40 have been classified
C14_Witness ==
    /\ labels # <<>>
    /\ scores = <<<<30 * Scale>>, <<10 * Scale>>, <<50 * Scale>>,
                  <<20 * Scale>>, <<40 * Scale>>>>
    /\ labels = <<"Moderate Risk", "Low Risk", "High Risk", "Low Risk",
                  "High Risk">>

\* C15: after the cleaning step no retained row has a null in a required
\* field: every row of the air quality frame that dropna keeps has all of
\* its pollutant readings.
C15_NonNullAfterCleaning ==
    tpc \in {"cleaned", "written"} =>
        \A k \in 1..Len(frame) : \A c \in poll_cols : frame[k][c] # Null

(* ================= properties of the delivery transform ================ *)
\* the filter has run
Filtered == dpc \in {"filtered", "scored", "merged", "saved"}

\* the positions in the deliveries file of the rows of df
Indexes(df) == {df[k].index : k \in 1..Len(df)}

HasRoute(row) == \E k \in 1..Len(traffic_df) : traffic_df[k].route = row.route

\* C17: the left join keeps every cleaned delivery, a delivery with no
\* matching route gets the defaults 5 and 40 (not null) for congestion_score
\* and avg_route_speed, and neither traffic_impact_score nor
\* delivery_efficiency_index divides by zero.
C17_JoinDefaults ==
    dpc \in {"merged", "saved"} =>
        /\ Indexes(merged_df) = Indexes(deliveries_df)
        /\ \A k \in 1..Len(merged_df) :
            LET row == merged_df[k]
            IN  /\ ~HasRoute(row) =>
                    /\ row.congestion_score = <<5>>
                    /\ row.avg_route_speed = <<40>>
                /\ row.avg_route_speed # <<0>>
                /\ row.delay_minutes + Scale # 0

(* ===================== properties of the extraction ==================== *)
\* the attempts made for city c, in order
AttemptsOf(c) == SelectSeq(events, LAMBDA e : e.city = c)

\* _fetch_city has returned for city c
Fetched(c) == c < city \/ (c = city /\ epc \in {"loop", "done"})

\* every attempt made for city c has failed
AllFailed(c) == \A k \in 1..Len(AttemptsOf(c)) : AttemptsOf(c)[k].res # "ok"

\* C18: a city whose fetch fails on every attempt is attempted exactly
\* MAX_RETRIES times, with a wait of 2^(n-1) seconds after attempt n; a
\* fetch that has succeeded is not attempted again; a city that exhausts
\* its attempts yields no file, and every city after it is still fetched.
C18_ExtractionRetry ==
    /\ \A c \in 1..city :
        LET a == AttemptsOf(c)
        IN  /\ \A k \in 1..Len(a) :
                /\ a[k].attempt = k
                /\ a[k].res # "ok" => a[k].sleep = <<2 ^ (k - 1)>>
                /\ a[k].res = "ok" => k = Len(a) /\ a[k].sleep = Null
            /\ Fetched(c) /\ AllFailed(c) =>
                /\ Len(a) = MAX_RETRIES
                /\ \A k \in 1..Len(saved_files) : saved_files[k] # c
            /\ Fetched(c) /\ ~AllFailed(c) =>
                \E k \in 1..Len(saved_files) : saved_files[k] = c
    /\ epc = "done" =>
        /\ city = cities
        /\ \A c \in 1..cities : Len(AttemptsOf(c)) >= 1
    /\ \A k \in 1..Len(events) : events[k].city \in 1..city
    /\ \A j, k \in 1..Len(events) :
        j < k => events[j].city <= events[k].city

\* the first city has exhausted its attempts and the second has been saved
C18_Witness ==
    /\ epc = "done"
    /\ Len(AttemptsOf(1)) = MAX_RETRIES
    /\ AllFailed(1)
    /\ saved_files = <<2>>

(* ================== properties of the column selection ================= *)
\* the header of the staged file in lower case
StagedColumns == {lower(c) : c \in file_columns}

\* the selection of the columns has run
Selected == spc \in {"key_error", "selected", "cleared"}

\* C19 as claimed: the load fails for a staged file with a column the table
\* does not expect, and for one that lacks an expected column.
C19_Original ==
    Selected /\ StagedColumns # required_cols => spc = "key_error"

\* C19 amended: the load keeps the expected columns and drops every other
\* column of the staged file without an error; it fails, before the table
\* is cleared, exactly when the staged file lacks an expected column.
C19_SchemaDrift ==
    /\ Selected =>
        (spc = "key_error" <=> \E c \in required_cols : c \notin StagedColumns)
    /\ spc \in {"selected", "cleared"} => df_columns = required_cols

\* a staged file with the column churn_flag has been loaded
C19_Witness ==
    /\ spc = "cleared"
    /\ "churn_flag" \in file_columns
    /\ df_columns = required_cols

(* ==================== the order of the insert calls ==================== *)
\* the rows of the batches whose insert succeeded in this load, in the order
\* of the source
InsertedInOrder ==
    Concat([k \in 1..Len(Batches) |->
                IF last_res[k] = "ok" THEN Batches[k] ELSE <<>>])

\* the last n rows of the table
LastRows(n) == SubSeq(table, Len(table) - n + 1, Len(table))

\* the insert calls of a load are made for the batches in order, and the
\* rows inserted are at the end of the table in the order of the source
InOrder ==
    (loader # "none" /\ Len(tries) = Len(Batches)) =>
        /\ \A k \in 1..Len(tries) :
            /\ tries[k] > 0 => k <= i
            /\ k < i => outcome[k] # "pending"
            /\ outcome[k] # "pending" => k < i
        /\ Len(InsertedInOrder) <= Len(table)
        /\ LastRows(Len(InsertedInOrder)) = InsertedInOrder

\* a step issues at most one insert call, and issues it for batch i
OneInsert ==
    \A k \in (DOMAIN tries) \cap (DOMAIN tries') :
        tries'[k] # tries[k] =>
            /\ k = i
            /\ tries'[k] = tries[k] + 1
            /\ \A j \in (DOMAIN tries) \cap (DOMAIN tries') :
                j # k => tries'[j] = tries[j]

\* C20: within one load every insert attempt for batch i happens before the
\* first attempt for batch i+1, one insert call is made at a time, and the
\* rows of the successful inserts are in the table in source order.
C20_StrictBatchOrder == []InOrder /\ [][OneInsert]_vars

\* the first batch succeeded at its second attempt, then the second batch
\* succeeded
C20_Witness ==
    /\ loader # "none"
    /\ Len(tries) >= 2
    /\ tries[1] = 2
    /\ last_res[1] = "ok"
    /\ last_res[2] = "ok"

(* ===================== the life of one batch =========================== *)
\* the loaders that retry a batch
RetryingLoaders == {"load_data", "insert_batch", "run_load"}

\* the batches that exist before and after a step of one load
SameBatches == (DOMAIN outcome) \cap (DOMAIN outcome')

\* a batch is pending until an attempt succeeds or the attempts are used up
BatchStates ==
    (loader \in RetryingLoaders /\ Len(outcome) = Len(Batches)) =>
        /\ \A k \in 1..Len(outcome) :
            /\ outcome[k] \in {"pending", "succeeded", "failed"}
            /\ outcome[k] = "pending" =>
                /\ tries[k] < ConfiguredAttempts(loader)
                /\ last_res[k] # "ok"
            /\ outcome[k] = "succeeded" =>
                /\ tries[k] \in 1..ConfiguredAttempts(loader)
                /\ last_res[k] # "fault"
            /\ outcome[k] = "failed" =>
                /\ tries[k] = ConfiguredAttempts(loader)
                /\ last_res[k] # "ok"
        /\ success_count = RowsWith("succeeded", Len(outcome))

\* within one load succeeded and failed are terminal; an attempt hands over
\* the whole batch; the success count grows only by the rows of the batch
\* that succeeds
BatchSteps ==
    (loader \in RetryingLoaders /\ loader' = loader) =>
        /\ \A k \in SameBatches :
            /\ outcome[k] # "pending" =>
                /\ outcome'[k] = outcome[k]
                /\ tries'[k] = tries[k]
                /\ last_res'[k] = last_res[k]
            /\ last_res[k] = "ok" => tries'[k] = tries[k]
            /\ tries'[k] # tries[k] =>
                /\ table' \in {table, table \o Batches[k]}
                /\ last_res'[k] = "ok" <=> table' = table \o Batches[k]
            /\ outcome[k] = "pending" /\ outcome'[k] = "succeeded" =>
                success_count' = success_count + Len(Batches[k])
        /\ success_count' > success_count =>
            \E k \in SameBatches :
                outcome[k] = "pending" /\ outcome'[k] = "succeeded"

\* C21: a batch is pending, then after an attempt succeeded, or retried, or
\* failed once the configured attempts are used up; succeeded and failed are
\* terminal, so a batch is not inserted again after a successful attempt, is
\* credited to the success count once at most, and is retried whole.
C21_BatchStateMachine == []BatchStates /\ [][BatchSteps]_vars

\* one batch succeeded at its second attempt and another used up its attempts
C21_Witness ==
    /\ loader \in RetryingLoaders
    /\ \E k \in DOMAIN outcome : outcome[k] = "succeeded" /\ tries[k] = 2
    /\ \E k \in DOMAIN outcome : outcome[k] = "failed"

(* ===================== properties of the validation ==================== *)
\* validate_data has ended, normally or with an exception
Ended == vpc \in {"complete", "key_error"}

\* fetch_all_rows returns every row of the table once, in the order of the
\* ranges, after one request per page, full or not, and one more
ReadBack ==
    /\ vpc \notin {"idle", "fetch"} =>
        /\ all_data = db_table
        /\ Len(requests) = (Len(db_table) + PageSize - 1) \div PageSize + 1
    /\ fetch_start <= Len(db_table) + PageSize
    /\ all_data = SubSeq(db_table, 1, Len(all_data))

\* C22: for a table of any size N that does not change, N = 0 and N a
\* multiple of the page included, fetch_all_rows ends and returns all the N
\* rows once in range order, so that the row count check of the validator
\* passes exactly when the staged file has N rows.
C22_FullReadBack ==
    /\ ReadBack
    /\ Ended =>
        /\ \E k \in 1..Len(checks) : checks[k] \in {"count_match", "count_mismatch"}
        /\ csv_len = Len(db_table)
            <=> \E k \in 1..Len(checks) : checks[k] = "count_match"

(* =================== properties of the churn transform ================= *)
\* the code the claim gives a Contract value of the raw file
ClaimedCode(v) ==
    CASE v = <<"Month-to-month">> -> 0
      [] v = <<"One year">> -> 1
      [] v = <<"Two year">> -> 2
      [] OTHER -> 0

\* the Contract of row k or, when it is missing, of the nearest row before it
\* that has one; missing when there is none
NearestContract(k) ==
    LET have == {j \in 1..k : churn_raw[j] # Null}
    IN  IF have = {} THEN Null
        ELSE churn_raw[CHOOSE j \in have : \A h \in have : h <= j]

\* C23 as claimed: every row gets a contract_type_code in {0, 1, 2}, 0 for
\* month-to-month, 1 for one year, 2 for two year and 0 for any other
\* Contract value of the row, a missing one included; the codes pass the
\* check of the validator.
C23_Original ==
    kpc = "encoded" =>
        /\ \A k \in 1..Len(churn_df) :
            /\ churn_df[k].contract_type_code \in {0, 1, 2}
            /\ churn_df[k].contract_type_code = ClaimedCode(churn_raw[k])
        /\ invalid_codes(churn_df) = {}

\* C23 amended: every row gets a contract_type_code in {0, 1, 2}: the code of
\* its Contract value or, when that is missing, of the nearest earlier row
\* that has one (forward fill), with 0 for month-to-month, 1 for one year, 2
\* for two year, and 0 for any other value and for a missing value with no
\* row to fill from; the codes pass the check of the validator.
C23_ContractCodes ==
    kpc = "encoded" =>
        /\ Len(churn_df) = Len(churn_raw)
        /\ \A k \in 1..Len(churn_df) :
            /\ churn_df[k].contract_type_code \in {0, 1, 2}
            /\ churn_df[k].contract_type_code = ClaimedCode(NearestContract(k))
        /\ invalid_codes(churn_df) = {}

\* a missing Contract in the first row and one after a two year contract
C23_Witness ==
    /\ kpc = "encoded"
    /\ churn_raw = <<Null, <<"Two year">>, Null>>
    /\ churn_df[1].contract_type_code = 0
    /\ churn_df[3].contract_type_code = 2
====
